---- MODULE Spec2Model ----
(***************************************************************************)
(* Model of Uptane::TufRepository (src/src/uptane/tufrepository.cc): the   *)
(* trust state (keys_, thresholds_), the remembered timestamp, the target  *)
(* list and the files the verifier writes, driven by the public operations *)
(* updateRoot() and refresh() and by the constructor, against a server     *)
(* whose content the environment may replace at any time.                  *)
(*                                                                         *)
(* A JSON document is a record [signed, signatures]; a member that is      *)
(* absent from a document is the JsonCpp null of that member: the empty    *)
(* string, 0, the empty object.  Json::Value objects iterate in the order  *)
(* of their keys, which the *Order sequences spell out.                    *)
(*                                                                         *)
(* The directories <metadata_path>/<name>/<name> and .../targets that      *)
(* saveRole and saveTarget write into are taken to exist.                  *)
(***************************************************************************)
EXTENDS Integers, Sequences, FiniteSets, TLC

VARIABLES
  server,             \* role documents the server serves, by file name
  blobs,              \* target files the server serves, by target name
  published,          \* number of server-side changes so far
  keys_,              \* TufRepository::keys_        keyid -> PublicKey
  thresholds_,        \* TufRepository::thresholds_  role -> threshold
  timestamp_signed_,  \* TufRepository::timestamp_signed_
  targets_,           \* TufRepository::targets_
  files,              \* role documents on disk, by path
  targetFiles,        \* target files on disk, by target name
  savedAs,            \* history: the descriptor each target file was saved for
  last                \* history: the last operation, its inputs and its outcome

vars == <<server, blobs, published, keys_, thresholds_, timestamp_signed_,
          targets_, files, targetFiles, savedAs, last>>

(***************************************************************************)
(* Bounds and program constants                                            *)
(***************************************************************************)
MaxPublish == 2
MaxVersion == 2
MaxLen == 2

kMinSignatures == 1
kMaxSignatures == 1000

name_ == "director"

KeyIds == {"k1", "k2"}
KeyIdOrder == <<"k1", "k2">>
KeyVals == {"pA", "pB"}
Roles == {"root", "snapshot", "targets", "timestamp"}
RoleOrder == <<"root", "snapshot", "targets", "timestamp">>
MetaNames == {"other.json", "root.json", "targets.json"}
MetaOrder == <<"other.json", "root.json", "targets.json">>
TargetNames == {"a", "b"}
TargetOrder == <<"a", "b">>
Contents == {<<1>>, <<2>>, <<1, 1>>}

EmptyMap == [x \in {} |-> x]

(***************************************************************************)
(* Strings                                                                 *)
(***************************************************************************)
to_lower_copy(s) ==
  CASE s = "Root" -> "root"
    [] s = "Timestamp" -> "timestamp"
    [] s = "Snapshot" -> "snapshot"
    [] s = "Targets" -> "targets"
    [] s = "Other" -> "other"
    [] s = "RSA" -> "rsa"
    [] s = "ED25519" -> "ed25519"
    [] s = "RSASSA-PSS" -> "rsassa-pss"
    [] s = "MD5" -> "md5"
    [] s = "DSA" -> "dsa"
    [] OTHER -> s

\* role + ".json"
RoleFile(role) ==
  CASE role = "root" -> "root.json"
    [] role = "timestamp" -> "timestamp.json"
    [] role = "snapshot" -> "snapshot.json"
    [] role = "targets" -> "targets.json"
    [] role = "other" -> "other.json"
    [] OTHER -> ".json"

\* path_ / file, the place the constructor reads
CtorPath(file) == <<name_, file>>
\* path_ / name_ / file, the place saveRole writes
SavePath(file) == <<name_, name_, file>>

(***************************************************************************)
(* Crypto primitives (crypto.h, not part of the sources at hand)           *)
(***************************************************************************)
\* Json::FastWriter().write(signed): one string per JSON value
Canonical(signed) == signed

\* a signature made over msg with the private half of the key whose public
\* value is keyval
Sign(keyval, msg) == [by |-> keyval, msg |-> msg]
\* a signature made with a key no root declares
Forged(msg) == Sign("pX", msg)

PublicKey(value, type) == [value |-> value, type |-> type]

VerifySignature(key, sig, canonical) ==
  sig.by = key.value /\ sig.msg = canonical

HashOf(alg, content) == <<alg, content>>
DefaultHasher == [alg |-> "none", value |-> <<>>]
Hasher(alg, value) == [alg |-> alg, value |-> value]

\* Hasher::matchWith; a default-constructed Hasher matches nothing
matchWith(hash, content) ==
  hash.alg # "none" /\ hash.value = HashOf(hash.alg, content)

(***************************************************************************)
(* Documents                                                               *)
(***************************************************************************)
Signed(type, version, keys, roles, meta, targets) ==
  [_type |-> type, version |-> version, keys |-> keys, roles |-> roles,
   meta |-> meta, targets |-> targets]

NullDoc ==
  [signed |-> Signed("", 0, EmptyMap, EmptyMap, {}, EmptyMap),
   signatures |-> <<>>]

Target(custom, filename, length, hash) ==
  [custom |-> custom, filename |-> filename, length_ |-> length, hash_ |-> hash]

(***************************************************************************)
(* The verifier.  Every operation works on a context c: the object's       *)
(* fields and files, the error that ended the operation ("ok" while none   *)
(* has), and the record of what was fetched and what was validated.        *)
(* c.stop counts down to the file write during which the process is        *)
(* stopped, 0 when it is not stopped at all.                               *)
(***************************************************************************)
MapInsert(m, k, v) == IF k \in DOMAIN m THEN m ELSE (k :> v) @@ m
MapAssign(m, k, v) == (k :> v) @@ m

\* std::map::operator[] on thresholds_: a missing role is inserted as 0
MapIndex(m, k) == IF k \in DOMAIN m THEN m ELSE (k :> 0) @@ m

Context ==
  [keys |-> keys_, thr |-> thresholds_, ts |-> timestamp_signed_,
   targets |-> targets_, files |-> files, targetFiles |-> targetFiles,
   savedAs |-> savedAs, err |-> "ok", fetched |-> <<>>, checks |-> <<>>,
   content |-> NullDoc, is_new |-> FALSE, stop |-> 0, cut |-> 0]

\* the same, for a process that is stopped inside the k-th file write of the
\* operation, n bytes of a target file being written by then
StoppedAt(k, n) == [Context EXCEPT !.stop = k, !.cut = n]

Failed(c) == c.err # "ok"

\* http_.getJson(base_url_ + "/" + role): a file the server lacks is null
getJSON(role) == IF role \in DOMAIN server THEN server[role] ELSE NullDoc

\* TufRepository::initRoot, first loop: signed.keys in key order
RECURSIVE initRootKeys(_, _, _)
initRootKeys(i, json_keys, keys) ==
  IF i > Len(KeyIdOrder) THEN [keys |-> keys, err |-> "ok"]
  ELSE LET id == KeyIdOrder[i] IN
    IF id \notin DOMAIN json_keys THEN initRootKeys(i + 1, json_keys, keys)
    ELSE LET key_type == to_lower_copy(json_keys[id].keytype) IN
      IF key_type # "rsa" /\ key_type # "ed25519"
      THEN [keys |-> keys, err |-> "UnsupportedKeyType"]
      ELSE initRootKeys(i + 1, json_keys,
             MapInsert(keys, id,
                       PublicKey(json_keys[id].keyval, json_keys[id].keytype)))

\* TufRepository::initRoot, second loop: signed.roles in key order
RECURSIVE initRootRoles(_, _, _)
initRootRoles(i, json_roles, thr) ==
  IF i > Len(RoleOrder) THEN [thr |-> thr, err |-> "ok"]
  ELSE LET role == RoleOrder[i] IN
    IF role \notin DOMAIN json_roles THEN initRootRoles(i + 1, json_roles, thr)
    ELSE LET requiredThreshold == json_roles[role] IN
      IF requiredThreshold < kMinSignatures
      THEN [thr |-> thr, err |-> "IllegalThreshold"]
      ELSE IF kMaxSignatures < requiredThreshold
      THEN [thr |-> thr, err |-> "IllegalThreshold"]
      ELSE initRootRoles(i + 1, json_roles,
                         MapAssign(thr, role, requiredThreshold))

\* TufRepository::initRoot
initRoot(content, c) ==
  LET k == initRootKeys(1, content.signed.keys, c.keys) IN
  IF k.err # "ok" THEN [c EXCEPT !.keys = k.keys, !.err = k.err]
  ELSE LET r == initRootRoles(1, content.signed.roles, c.thr) IN
       [c EXCEPT !.keys = k.keys, !.thr = r.thr, !.err = r.err]

\* the loop over the signatures returning at the first signature that verifies
RECURSIVE verifySignatures_FirstValid(_, _, _, _)
verifySignatures_FirstValid(i, sigs, canonical, keys) ==
  IF i > Len(sigs) THEN "InvalidSignature"
  ELSE LET method == to_lower_copy(sigs[i].method)
           keyid == sigs[i].keyid
       IN IF /\ method \in {"rsassa-pss", "ed25519"}
             /\ keyid \in DOMAIN keys
             /\ VerifySignature(keys[keyid], sigs[i].sig, canonical)
          THEN "ok"
          ELSE verifySignatures_FirstValid(i + 1, sigs, canonical, keys)

\* TufRepository::verifyRole, the loop over the signatures
RECURSIVE verifySignatures(_, _, _, _)
verifySignatures(i, sigs, canonical, keys) ==
  IF i > Len(sigs) THEN "ok"
  ELSE LET method == to_lower_copy(sigs[i].method)
           keyid == sigs[i].keyid
       IN IF method # "rsassa-pss" /\ method # "ed25519" THEN "UnsupportedMethod"
          ELSE IF keyid \notin DOMAIN keys THEN "UnknownKey"
          ELSE IF ~VerifySignature(keys[keyid], sigs[i].sig, canonical)
          THEN "InvalidSignature"
          ELSE verifySignatures(i + 1, sigs, canonical, keys)

\* TufRepository::verifyRole: the error it throws ("ok" when it returns) and
\* thresholds_ as it leaves it
verifyRole(tuf_signed, keys, thr) ==
  LET role == to_lower_copy(tuf_signed.signed._type)
      sigs == tuf_signed.signatures
  IN IF Len(sigs) = 0 THEN [err |-> "MissingSignatures", thr |-> thr]
     ELSE LET thr2 == MapIndex(thr, role) IN
       IF Len(sigs) < thr2[role] THEN [err |-> "BelowThreshold", thr |-> thr2]
       ELSE [err |-> verifySignatures(1, sigs, Canonical(tuf_signed.signed), keys),
             thr |-> thr2]

\* verifyRole on a context, with the validation recorded
Verify(name, content, c) ==
  LET v == verifyRole(content, c.keys, c.thr) IN
  [c EXCEPT !.thr = v.thr, !.err = v.err,
            !.checks = Append(@, [name |-> name, doc |-> content, keys |-> c.keys,
                                  thr |-> c.thr, err |-> v.err])]

\* what a reader finds in a file whose writing was cut short: the ofstream
\* constructor has emptied the file, a part of the text may have followed
Torn(content) == [prefix_of |-> content]
TornBytes(content, n) ==
  SubSeq(content, 1, IF n < Len(content) THEN n ELSE Len(content) - 1)

\* TufRepository::saveRole: the file is opened in place, written and closed
saveRole(content, c) ==
  LET role == to_lower_copy(content.signed._type) IN
  IF c.stop = 1
  THEN [c EXCEPT !.files = MapAssign(@, SavePath(RoleFile(role)), Torn(content)),
                 !.err = "Stopped"]
  ELSE [c EXCEPT !.files = MapAssign(@, SavePath(RoleFile(role)), content),
                 !.stop = IF @ > 1 THEN @ - 1 ELSE @]

Fetch(name, c) == [c EXCEPT !.fetched = Append(@, name)]

\* TufRepository::updateRoot
updateRoot(c) ==
  LET content == getJSON("root.json")
      c1 == initRoot(content, Fetch("root.json", c))
  IN IF Failed(c1) THEN c1
     ELSE LET c2 == Verify("root.json", content, c1) IN
          IF Failed(c2) THEN c2 ELSE saveRole(content, c2)

\* TufRepository::updateRole; the document is left in c.content
updateRole(role, c) ==
  LET content == getJSON(role)
      c1 == Verify(role, content, Fetch(role, c))
  IN IF Failed(c1) THEN c1
     ELSE [saveRole(content, c1) EXCEPT !.content = content]

\* Json::Value::operator[]("version") of timestamp_signed_: null (below every
\* number) when the value has no such member
NullVersion == -1
VersionOf(json) == IF "version" \in DOMAIN json THEN json.version ELSE NullVersion

\* checkTimestamp taking an equal version for a new one
checkTimestamp_NotOlder(c) ==
  LET c1 == updateRole("timestamp.json", c) IN
  IF Failed(c1) THEN c1
  ELSE [c1 EXCEPT !.is_new = c1.content.signed.version >= VersionOf(c.ts),
                  !.ts = c1.content.signed]

\* TufRepository::checkTimestamp; the result is left in c.is_new
checkTimestamp(c) ==
  LET c1 == updateRole("timestamp.json", c) IN
  IF Failed(c1) THEN c1
  ELSE [c1 EXCEPT !.is_new = c1.content.signed.version > VersionOf(c.ts),
                  !.ts = c1.content.signed]

\* saveTarget writing the file before it checks the content
saveTarget_WriteFirst(target, c) ==
  IF target.length_ > 0
  THEN LET content == blobs[target.filename]
           c1 == [Fetch(target.filename, c) EXCEPT
                    !.targetFiles = MapAssign(@, target.filename, content),
                    !.savedAs = MapAssign(@, target.filename, target)]
       IN IF Len(content) > target.length_ THEN [c1 EXCEPT !.err = "OversizedTarget"]
          ELSE IF ~matchWith(target.hash_, content)
          THEN [c1 EXCEPT !.err = "TargetHashMismatch"]
          ELSE [c1 EXCEPT !.targets = Append(@, target)]
  ELSE [c EXCEPT !.targets = Append(@, target)]

\* saveTarget without the comparison of the lengths
saveTarget_AnyLength(target, c) ==
  IF target.length_ > 0
  THEN LET content == blobs[target.filename]
           c1 == Fetch(target.filename, c)
       IN IF ~matchWith(target.hash_, content)
          THEN [c1 EXCEPT !.err = "TargetHashMismatch"]
          ELSE [c1 EXCEPT !.targetFiles = MapAssign(@, target.filename, content),
                          !.savedAs = MapAssign(@, target.filename, target),
                          !.targets = Append(@, target)]
  ELSE [c EXCEPT !.targets = Append(@, target)]

\* TufRepository::saveTarget: the file is opened in place, written and closed
saveTarget(target, c) ==
  IF target.length_ > 0
  THEN LET content == blobs[target.filename]
           c1 == Fetch(target.filename, c)
       IN IF Len(content) > target.length_ THEN [c1 EXCEPT !.err = "OversizedTarget"]
          ELSE IF ~matchWith(target.hash_, content)
          THEN [c1 EXCEPT !.err = "TargetHashMismatch"]
          ELSE IF c1.stop = 1
          THEN [c1 EXCEPT !.targetFiles = MapAssign(@, target.filename,
                                                    TornBytes(content, c1.cut)),
                          !.savedAs = MapAssign(@, target.filename, target),
                          !.err = "Stopped"]
          ELSE [c1 EXCEPT !.targetFiles = MapAssign(@, target.filename, content),
                          !.savedAs = MapAssign(@, target.filename, target),
                          !.targets = Append(@, target),
                          !.stop = IF @ > 1 THEN @ - 1 ELSE @]
  ELSE [c EXCEPT !.targets = Append(@, target)]

\* TufRepository::refresh, lines 145-152: the descriptor of one targets entry
MakeTarget(filename, entry) ==
  LET hashes == entry.hashes
      hash == IF "sha512" \in DOMAIN hashes THEN Hasher("sha512", hashes["sha512"])
              ELSE IF "sha256" \in DOMAIN hashes THEN Hasher("sha256", hashes["sha256"])
              ELSE DefaultHasher
  IN Target(entry.custom, filename, entry.length, hash)

\* TufRepository::refresh, the loop over signed.targets
RECURSIVE saveTargets(_, _, _)
saveTargets(i, json_targets, c) ==
  IF i > Len(TargetOrder) \/ Failed(c) THEN c
  ELSE LET t == TargetOrder[i] IN
    IF t \notin DOMAIN json_targets THEN saveTargets(i + 1, json_targets, c)
    ELSE saveTargets(i + 1, json_targets,
                     saveTarget(MakeTarget(t, json_targets[t]), c))

\* TufRepository::refresh, the loop over the remaining updated_roles
RECURSIVE updateRoles(_, _, _)
updateRoles(i, updated_roles, c) ==
  IF i > Len(MetaOrder) \/ Failed(c) THEN c
  ELSE LET role == MetaOrder[i] IN
    IF role \notin updated_roles THEN updateRoles(i + 1, updated_roles, c)
    ELSE LET c1 == updateRole(role, c) IN
      IF Failed(c1) THEN c1
      ELSE IF role = "targets.json"
      THEN updateRoles(i + 1, updated_roles,
                       saveTargets(1, c1.content.signed.targets, c1))
      ELSE updateRoles(i + 1, updated_roles, c1)

\* TufRepository::refresh, lines 136-139
reanchor(c) ==
  LET c1 == updateRole("root.json", c) IN
  IF Failed(c1) THEN c1 ELSE initRoot(c1.content, c1)

\* refresh taking root.json in its turn among the updated roles
RECURSIVE updateRolesInTurn(_, _, _)
updateRolesInTurn(i, updated_roles, c) ==
  IF i > Len(MetaOrder) \/ Failed(c) THEN c
  ELSE LET role == MetaOrder[i] IN
    IF role \notin updated_roles THEN updateRolesInTurn(i + 1, updated_roles, c)
    ELSE IF role = "root.json"
    THEN updateRolesInTurn(i + 1, updated_roles, reanchor(c))
    ELSE LET c1 == updateRole(role, c) IN
      IF Failed(c1) THEN c1
      ELSE IF role = "targets.json"
      THEN updateRolesInTurn(i + 1, updated_roles,
                             saveTargets(1, c1.content.signed.targets, c1))
      ELSE updateRolesInTurn(i + 1, updated_roles, c1)

refresh_RootInTurn(c) ==
  LET c0 == checkTimestamp([c EXCEPT !.targets = <<>>]) IN
  IF Failed(c0) \/ ~c0.is_new THEN c0
  ELSE LET c1 == updateRole("snapshot.json", c0) IN
    IF Failed(c1) THEN c1
    ELSE updateRolesInTurn(1, c1.content.signed.meta, c1)

\* TufRepository::refresh
refresh(c) ==
  LET c0 == checkTimestamp([c EXCEPT !.targets = <<>>]) IN
  IF Failed(c0) \/ ~c0.is_new THEN c0
  ELSE LET c1 == updateRole("snapshot.json", c0) IN
    IF Failed(c1) THEN c1
    ELSE LET updated_roles == c1.content.signed.meta
             c2 == IF "root.json" \in updated_roles THEN reanchor(c1) ELSE c1
         IN IF Failed(c2) THEN c2
            ELSE updateRoles(1, updated_roles \ {"root.json"}, c2)

(***************************************************************************)
(* What the server may serve                                               *)
(***************************************************************************)
Sig(keyid, method, sig) == [keyid |-> keyid, method |-> method, sig |-> sig]
Doc(signed, signatures) == [signed |-> signed, signatures |-> signatures]

\* one signature over signed: by either key under its own keyid
Good(k, signed) ==
  Sig(k, "RSASSA-PSS", Sign(IF k = "k1" THEN "pA" ELSE "pB", Canonical(signed)))

\* ... or one that must not count: made with the other key, forged, made
\* with a method the verifier does not know, or under a keyid no root declares
Bad(signed) ==
  {Sig("k1", "RSASSA-PSS", Sign("pB", Canonical(signed))),
   Sig("k1", "rsassa-pss", Forged(Canonical(signed))),
   Sig("k1", "MD5", Sign("pA", Canonical(signed))),
   Sig("k3", "ed25519", Sign("pA", Canonical(signed)))}

\* signed once, by one of the two keys
PlainLists(signed) == {<<Good(k, signed)>> : k \in KeyIds}

\* every way of signing that the validation routine tells apart
SigLists(signed) ==
  {<<>>} \cup PlainLists(signed)
    \cup {<<b>> : b \in Bad(signed)}
    \cup {<<Good("k1", signed), g>> : g \in {Good(k, signed) : k \in KeyIds}}
    \cup {<<Good("k1", signed), b>> : b \in Bad(signed)}

KeyEntry(type, val) == [keytype |-> type, keyval |-> val]
BaseKeys == ("k1" :> KeyEntry("RSA", "pA"))
KeyTables ==
  {("k1" :> KeyEntry("RSA", v)) : v \in KeyVals}
    \cup {("k2" :> KeyEntry("ed25519", "pB"))}
    \cup {BaseKeys @@ ("k2" :> KeyEntry(t, "pB")) : t \in {"ed25519", "DSA"}}

MaxThreshold == 2
BaseRoles == [r \in Roles |-> 1]
RoleTables ==
  {[r \in Roles |-> IF r = "root" THEN tr ELSE 1] : tr \in 1..MaxThreshold}
    \cup {[r \in Roles |-> IF r = "root" THEN 1 ELSE to] : to \in 0..MaxThreshold}
    \cup {[r \in Roles \ {"targets"} |-> 1],
          [r \in Roles |-> IF r = "timestamp" THEN kMaxSignatures + 1 ELSE 1]}

\* a root differs from the first one in its keys or in its roles
RootSigned(keys, roles) == Signed("Root", 1, keys, roles, {}, EmptyMap)
RootBodies ==
  {RootSigned(k, BaseRoles) : k \in KeyTables}
    \cup {RootSigned(BaseKeys, r) : r \in RoleTables}
RootDocs ==
  {Doc(s, <<Good("k1", s)>>) : s \in RootBodies}
    \cup {Doc(s, <<Good("k2", s)>>) :
            s \in {b \in RootBodies : "k2" \in DOMAIN b.keys \/ b.roles = BaseRoles}}
    \cup {Doc(RootSigned(BaseKeys, BaseRoles), <<>>)}

TimestampSigned(v) == Signed("Timestamp", v, EmptyMap, EmptyMap, {}, EmptyMap)
TimestampDocs ==
  UNION {{Doc(s, sl) : sl \in SigLists(s)} :
           s \in {TimestampSigned(v) : v \in 1..MaxVersion}}

SnapshotSigned(meta) == Signed("Snapshot", 1, EmptyMap, EmptyMap, meta, EmptyMap)
SnapshotDocs ==
  {Doc(s, <<Good("k1", s)>>) : s \in {SnapshotSigned(m) : m \in SUBSET MetaNames}}
    \cup {Doc(s, <<Good("k2", s)>>) :
            s \in {SnapshotSigned({"root.json", "targets.json"})}}

TargetEntry(length, hashes) == [length |-> length, hashes |-> hashes, custom |-> "c"]
HashTables ==
  {("sha256" :> HashOf("sha256", c)) : c \in Contents}
    \cup {("sha512" :> HashOf("sha512", <<1>>)) @@ ("sha256" :> HashOf("sha256", <<2>>)),
          ("md5" :> HashOf("md5", <<1>>))}
BaseA == TargetEntry(2, ("sha256" :> HashOf("sha256", <<1, 1>>)))
BaseB == TargetEntry(1, ("sha256" :> HashOf("sha256", <<2>>)))
BaseTargets == ("a" :> BaseA) @@ ("b" :> BaseB)
TargetTables ==
  {("a" :> TargetEntry(l, h)) @@ ("b" :> BaseB) : l \in 0..MaxLen, h \in HashTables}
    \cup {("a" :> BaseA) @@ ("b" :> TargetEntry(l, BaseB.hashes)) : l \in 0..MaxLen}
    \cup {("a" :> BaseA), EmptyMap}
TargetsSigned(t) == Signed("Targets", 1, EmptyMap, EmptyMap, {}, t)
TargetsDocs ==
  {Doc(TargetsSigned(t), <<Good("k1", TargetsSigned(t))>>) : t \in TargetTables}
    \cup {Doc(TargetsSigned(BaseTargets), <<Good("k2", TargetsSigned(BaseTargets))>>)}

\* a document of a role the root does not know
OtherSigned == Signed("Other", 1, EmptyMap, EmptyMap, {}, EmptyMap)

BaseDoc(signed) == Doc(signed, <<Good("k1", signed)>>)
BaseRoot == BaseDoc(RootSigned(BaseKeys, BaseRoles))

\* the repository as first published: one key, every threshold 1, every
\* document signed with it, the snapshot listing root.json and targets.json
BaseServer ==
  [f \in {"root.json", "timestamp.json", "snapshot.json", "targets.json",
           "other.json"} |->
     CASE f = "root.json" -> BaseRoot
       [] f = "other.json" -> BaseDoc(OtherSigned)
       [] f = "timestamp.json" -> BaseDoc(TimestampSigned(1))
       [] f = "snapshot.json" -> BaseDoc(SnapshotSigned({"root.json", "targets.json"}))
       [] f = "targets.json" -> BaseDoc(TargetsSigned(BaseTargets))]
BaseBlobs == ("a" :> <<1, 1>>) @@ ("b" :> <<2>>)

(***************************************************************************)
(* State machine                                                           *)
(***************************************************************************)
Pre ==
  [keys |-> keys_, thr |-> thresholds_, ts |-> timestamp_signed_,
   targets |-> targets_, files |-> files, targetFiles |-> targetFiles]

\* what the operation before this one was, when it was a refresh and the
\* server has not changed since: "refreshed" when it returned, "aborted" when
\* it found a newer timestamp and then failed
NoSummary == "none"
Summary ==
  IF last.dirty \/ last.op # "refresh" THEN NoSummary
  ELSE IF last.err = "ok" THEN "refreshed"
  ELSE IF last.is_new THEN "aborted"
  ELSE NoSummary

Outcome(op, c) ==
  [op |-> op, err |-> c.err, is_new |-> c.is_new, dirty |-> FALSE,
   fetched |-> c.fetched, checks |-> c.checks, pre |-> Pre, prev |-> Summary]

\* TufRepository::TufRepository on the files found under path_
Constructed(disk) ==
  LET c0 == [keys |-> EmptyMap, thr |-> EmptyMap, err |-> "ok"]
      c1 == IF CtorPath("root.json") \in DOMAIN disk
            THEN initRoot(disk[CtorPath("root.json")], c0) ELSE c0
  IN [keys |-> c1.keys, thr |-> c1.thr, err |-> c1.err,
      ts |-> IF CtorPath("timestamp.json") \in DOMAIN disk
             THEN disk[CtorPath("timestamp.json")] ELSE [version |-> 0]]

\* a new device: an empty metadata directory, and the object the
\* constructor builds on it
Init ==
  /\ server = BaseServer
  /\ blobs = BaseBlobs
  /\ published = 0
  /\ files = EmptyMap
  /\ keys_ = Constructed(files).keys
  /\ thresholds_ = Constructed(files).thr
  /\ timestamp_signed_ = Constructed(files).ts
  /\ targets_ = <<>>
  /\ targetFiles = EmptyMap
  /\ savedAs = EmptyMap
  /\ last = [op |-> "none", err |-> "ok", is_new |-> FALSE, dirty |-> FALSE,
             fetched |-> <<>>, checks |-> <<>>, pre |-> Pre, prev |-> NoSummary]

UpdateRoot ==
  \E c \in {updateRoot(Context)} :
  /\ keys_' = c.keys
  /\ thresholds_' = c.thr
  /\ UNCHANGED <<timestamp_signed_, targets_, targetFiles, savedAs>>
  /\ files' = c.files
  /\ last' = Outcome("updateRoot", c)
  /\ UNCHANGED <<server, blobs, published>>

Refresh ==
  \E c \in {refresh(Context)} :
  /\ keys_' = c.keys
  /\ thresholds_' = c.thr
  /\ timestamp_signed_' = c.ts
  /\ targets_' = c.targets
  /\ files' = c.files
  /\ targetFiles' = c.targetFiles
  /\ savedAs' = c.savedAs
  /\ last' = Outcome("refresh", c)
  /\ UNCHANGED <<server, blobs, published>>

\* the process restarts: a new TufRepository on the same directory
Construct ==
  \E c \in {Constructed(files)} :
  /\ c.err = "ok"
  /\ keys_' = c.keys
  /\ thresholds_' = c.thr
  /\ timestamp_signed_' = c.ts
  /\ targets_' = <<>>
  /\ last' = [Outcome("construct", Context) EXCEPT !.dirty = last.dirty]
  /\ UNCHANGED <<server, blobs, published, files, targetFiles, savedAs>>

\* the server replaces one of its documents
PublishRoot ==
  /\ published < MaxPublish
  /\ \E d \in RootDocs \ {server["root.json"]} :
       server' = [server EXCEPT !["root.json"] = d]
  /\ published' = published + 1
  /\ last' = [last EXCEPT !.dirty = TRUE]
  /\ UNCHANGED <<blobs, keys_, thresholds_, timestamp_signed_, targets_, files,
                 targetFiles, savedAs>>

PublishTimestamp ==
  /\ published < MaxPublish
  /\ \E d \in TimestampDocs \ {server["timestamp.json"]} :
       server' = [server EXCEPT !["timestamp.json"] = d]
  /\ published' = published + 1
  /\ last' = [last EXCEPT !.dirty = TRUE]
  /\ UNCHANGED <<blobs, keys_, thresholds_, timestamp_signed_, targets_, files,
                 targetFiles, savedAs>>

PublishSnapshot ==
  /\ published < MaxPublish
  /\ \E d \in SnapshotDocs \ {server["snapshot.json"]} :
       server' = [server EXCEPT !["snapshot.json"] = d]
  /\ published' = published + 1
  /\ last' = [last EXCEPT !.dirty = TRUE]
  /\ UNCHANGED <<blobs, keys_, thresholds_, timestamp_signed_, targets_, files,
                 targetFiles, savedAs>>

PublishTargets ==
  /\ published < MaxPublish
  /\ \E d \in TargetsDocs \ {server["targets.json"]} :
       server' = [server EXCEPT !["targets.json"] = d]
  /\ published' = published + 1
  /\ last' = [last EXCEPT !.dirty = TRUE]
  /\ UNCHANGED <<blobs, keys_, thresholds_, timestamp_signed_, targets_, files,
                 targetFiles, savedAs>>

\* the server replaces one of its target files
PublishBlob ==
  /\ published < MaxPublish
  /\ \E t \in TargetNames : \E b \in Contents \ {blobs[t]} :
       blobs' = [blobs EXCEPT ![t] = b]
  /\ published' = published + 1
  /\ last' = [last EXCEPT !.dirty = TRUE]
  /\ UNCHANGED <<server, keys_, thresholds_, timestamp_signed_, targets_, files,
                 targetFiles, savedAs>>

Next ==
  \/ UpdateRoot
  \/ Refresh
  \/ Construct
  \/ PublishRoot
  \/ PublishTimestamp
  \/ PublishSnapshot
  \/ PublishTargets
  \/ PublishBlob

Spec == Init /\ [][Next]_vars

\* the same verifier facing a server that changes only what one part of the
\* refresh reads: the timestamp; the root and the snapshot; the targets and
\* the target files
NextTimestamp == UpdateRoot \/ Refresh \/ Construct \/ PublishTimestamp
SpecTimestamp == Init /\ [][NextTimestamp]_vars

NextRoots ==
  UpdateRoot \/ Refresh \/ Construct \/ PublishRoot \/ PublishSnapshot
SpecRoots == Init /\ [][NextRoots]_vars

NextTargets ==
  UpdateRoot \/ Refresh \/ Construct \/ PublishTargets \/ PublishBlob
SpecTargets == Init /\ [][NextTargets]_vars

\* a repository whose root declares both keys and asks for two signatures
\* on every role but root
TwoKeyRoot ==
  BaseDoc(RootSigned(BaseKeys @@ ("k2" :> KeyEntry("ed25519", "pB")),
                     [r \in Roles |-> IF r = "root" THEN 1 ELSE 2]))

\* a new device facing either repository
InitSignatures ==
  /\ server \in {BaseServer, [BaseServer EXCEPT !["root.json"] = TwoKeyRoot]}
  /\ blobs = BaseBlobs
  /\ published = 0
  /\ files = EmptyMap
  /\ keys_ = Constructed(files).keys
  /\ thresholds_ = Constructed(files).thr
  /\ timestamp_signed_ = Constructed(files).ts
  /\ targets_ = <<>>
  /\ targetFiles = EmptyMap
  /\ savedAs = EmptyMap
  /\ last = [op |-> "none", err |-> "ok", is_new |-> FALSE, dirty |-> FALSE,
             fetched |-> <<>>, checks |-> <<>>, pre |-> Pre, prev |-> NoSummary]

SpecSignatures == InitSignatures /\ [][NextTimestamp]_vars

\* the file writes one operation can make: five role documents and the
\* target files
Writes == 1..(Len(RoleOrder) + 1 + Len(TargetOrder))

\* the process is stopped while updateRoot() or refresh() writes a file, and
\* a new TufRepository is constructed on the directory it leaves
Stopped ==
  \E k \in Writes, n \in 0..(MaxLen - 1) :
  \E c \in {updateRoot(StoppedAt(k, n)), refresh(StoppedAt(k, n))} :
  /\ c.err = "Stopped"
  /\ Constructed(c.files).err = "ok"
  /\ files' = c.files
  /\ targetFiles' = c.targetFiles
  /\ savedAs' = c.savedAs
  /\ keys_' = Constructed(c.files).keys
  /\ thresholds_' = Constructed(c.files).thr
  /\ timestamp_signed_' = Constructed(c.files).ts
  /\ targets_' = <<>>
  /\ last' = Outcome("stopped", c)
  /\ UNCHANGED <<server, blobs, published>>

NextStore == UpdateRoot \/ Refresh \/ Construct \/ Stopped \/ PublishBlob
SpecStore == Init /\ [][NextStore]_vars

(***************************************************************************)
(* Properties                                                              *)
(***************************************************************************)
Range(seq) == {seq[i] : i \in 1..Len(seq)}

\* the last operation was op, and the server still serves what op fetched
Ran(op) == last.op = op /\ ~last.dirty
Returned == last.err = "ok"
Threw == last.err # "ok"

\* the validations of the last operation that were of the file name
ChecksOf(name) == {ch \in Range(last.checks) : ch.name = name}

\* the keyids whose signature on doc verifies under keys
ValidKeyids(doc, keys) ==
  {sg.keyid : sg \in {x \in Range(doc.signatures) :
      /\ to_lower_copy(x.method) \in {"rsassa-pss", "ed25519"}
      /\ x.keyid \in DOMAIN keys
      /\ VerifySignature(keys[x.keyid], x.sig, Canonical(doc.signed))}}

ThresholdOf(thr, role) == IF role \in DOMAIN thr THEN thr[role] ELSE 0

\* the trust state a root document declares
DeclaredKeys(doc) ==
  [id \in DOMAIN doc.signed.keys |->
     PublicKey(doc.signed.keys[id].keyval, doc.signed.keys[id].keytype)]
DeclaredThresholds(doc) == doc.signed.roles

\* C1: every document the validation routine accepted in the last operation
\* carries at least thresholds[role] signatures of pairwise distinct keyids
\* that verify under the keys trusted at that moment.
C1_DistinctKeyThreshold ==
  \A ch \in Range(last.checks) :
    ch.err = "ok" =>
      Cardinality(ValidKeyids(ch.doc, ch.keys))
        >= ThresholdOf(ch.thr, to_lower_copy(ch.doc.signed._type))

\* the last operation failed while taking in a root: updateRoot threw, or
\* refresh threw at its root.json step
RootStepFailed ==
  /\ Threw
  /\ \/ Ran("updateRoot")
     \/ Ran("refresh") /\ last.fetched # <<>>
          /\ last.fetched[Len(last.fetched)] = "root.json"

\* C2: a failed root update leaves keys_ and thresholds_ exactly as they
\* were before the call.
C2_FailedRootKeepsTrust ==
  RootStepFailed => keys_ = last.pre.keys /\ thresholds_ = last.pre.thr

\* every signature of doc verifies under the keys doc itself declares
SelfSigned(doc) ==
  /\ doc.signatures # <<>>
  /\ ValidKeyids(doc, DeclaredKeys(doc)) = {sg.keyid : sg \in Range(doc.signatures)}
  /\ \A sg \in Range(doc.signatures) :
       /\ sg.keyid \in DOMAIN doc.signed.keys
       /\ VerifySignature(DeclaredKeys(doc)[sg.keyid], sg.sig, Canonical(doc.signed))

\* C3: updateRoot accepts and persists only a root whose signatures verify
\* under the keys that root declares.
C3_RootIsSelfSigned ==
  Ran("updateRoot") /\ ~SelfSigned(server["root.json"]) =>
    Threw /\ files = last.pre.files

\* the root the last operation took in successfully, if it did
RootTaken ==
  IF Ran("updateRoot") /\ Returned THEN {server["root.json"]}
  ELSE IF Ran("refresh") /\ Returned
  THEN {ch.doc : ch \in ChecksOf("root.json")}
  ELSE {}

\* C4: after a successful root update the trust state is exactly the tables
\* of the new root.
C4_TrustIsNewRoot ==
  \A doc \in RootTaken :
    keys_ = DeclaredKeys(doc) /\ thresholds_ = DeclaredThresholds(doc)

PersistedVersion(disk) ==
  IF SavePath("timestamp.json") \in DOMAIN disk
  THEN disk[SavePath("timestamp.json")].signed.version ELSE 0

\* C5: a refresh never lowers the remembered timestamp version nor the
\* version of the persisted timestamp, and a validly signed timestamp that is
\* not newer than the remembered one replaces neither.
C5_TimestampMonotonic ==
  Ran("refresh") =>
    /\ VersionOf(timestamp_signed_) >= VersionOf(last.pre.ts)
    /\ PersistedVersion(files) >= PersistedVersion(last.pre.files)
    /\ (/\ server["timestamp.json"].signed.version <= VersionOf(last.pre.ts)
        /\ last.checks[1].err = "ok")
         => /\ timestamp_signed_ = last.pre.ts
            /\ SavePath("timestamp.json") \in DOMAIN last.pre.files
            /\ files[SavePath("timestamp.json")]
                 = last.pre.files[SavePath("timestamp.json")]

\* the timestamp the last refresh fetched is not newer than the one remembered
Replayed ==
  /\ Ran("refresh")
  /\ server["timestamp.json"].signed.version <= VersionOf(last.pre.ts)

\* C6 as stated: a refresh that is served a timestamp not newer than the
\* remembered one fetches timestamp.json only and returns without error.
C6_ReplayReturns ==
  Replayed => last.fetched = <<"timestamp.json">> /\ Returned

\* C6, amended: such a refresh fetches timestamp.json only, and it returns
\* without error exactly when that timestamp passes the validation.
C6_ReplayFetchesOnlyTimestamp ==
  Replayed =>
    /\ last.fetched = <<"timestamp.json">>
    /\ Returned <=> last.checks[1].err = "ok"

\* a replay after a refresh that went through the whole pipeline
C6_Witness ==
  /\ Replayed /\ Returned
  /\ VersionOf(last.pre.ts) = MaxVersion
  /\ DOMAIN targetFiles = TargetNames

\* C7: a refresh that follows a successful refresh, the server unchanged,
\* leaves every file and the target list as they were.
C7_RefreshIdempotent ==
  Ran("refresh") /\ Returned /\ last.prev = "refreshed" =>
    /\ files = last.pre.files
    /\ targetFiles = last.pre.targetFiles
    /\ targets_ = last.pre.targets

\* target matches the file content
Fits(target, content) ==
  /\ Len(content) <= target.length_
  /\ target.hash_.alg \in {"sha256", "sha512"}
  /\ HashOf(target.hash_.alg, content) = target.hash_.value

C9_AbortKeepsTargets ==
  Ran("refresh") /\ Threw => targets_ = last.pre.targets

\* the last refresh validated a snapshot that lists root.json
Reanchoring ==
  /\ Ran("refresh")
  /\ Len(last.checks) >= 2
  /\ last.checks[2].err = "ok"
  /\ "root.json" \in last.checks[2].doc.signed.meta

StoredRoot(disk) ==
  IF SavePath("root.json") \in DOMAIN disk THEN disk[SavePath("root.json")]
  ELSE NullDoc

Legal(threshold) == kMinSignatures <= threshold /\ threshold <= kMaxSignatures

\* the roles a root declares with a threshold out of range
IllegalRoles(doc) ==
  {r \in DOMAIN doc.signed.roles : ~Legal(doc.signed.roles[r])}

\* C11: the threshold the trust state holds for a role of the stored root is
\* within kMinSignatures..kMaxSignatures; an updateRoot of a root that
\* declares a threshold out of that range fails with IllegalThreshold, and no
\* role holds the value that root declares for it.
C11_ThresholdsInRange ==
  /\ \A r \in DOMAIN StoredRoot(files).signed.roles :
       r \in DOMAIN thresholds_ => Legal(thresholds_[r])
  /\ Ran("updateRoot") /\ IllegalRoles(server["root.json"]) # {} =>
       /\ last.err = "IllegalThreshold"
       /\ \A r \in IllegalRoles(server["root.json"]) :
            r \in DOMAIN thresholds_ =>
              thresholds_[r] # server["root.json"].signed.roles[r]

\* C12: the validation routine rejects every document whose role has no
\* entry in the thresholds at that moment, however it is signed.
C12_UnknownRoleRejected ==
  \A ch \in Range(last.checks) :
    to_lower_copy(ch.doc.signed._type) \notin DOMAIN ch.thr => ch.err # "ok"

\* the trust state initRoot builds from doc on a new object
TrustOf(doc) == initRoot(doc, [keys |-> EmptyMap, thr |-> EmptyMap, err |-> "ok"])

\* C13: a verifier constructed on the directory an earlier one wrote into
\* starts, without a fetch, with the trust state of the stored root and with
\* the version of the stored timestamp, 0 when there is none.
C13_RestartKeepsTrust ==
  last.op = "construct" =>
    /\ last.fetched = <<>>
    /\ SavePath("root.json") \in DOMAIN files /\ ~Failed(TrustOf(StoredRoot(files)))
         => /\ keys_ = TrustOf(StoredRoot(files)).keys
            /\ thresholds_ = TrustOf(StoredRoot(files)).thr
    /\ VersionOf(timestamp_signed_) = PersistedVersion(files)

\* the validation of root.json in the last refresh, when there was one
RootCheck == CHOOSE ch \in ChecksOf("root.json") : TRUE

\* the last refresh went past its re-anchoring step: root.json was validated
\* and ingested, and the refresh went on to fetch something else
Reanchored ==
  /\ ChecksOf("root.json") # {}
  /\ last.fetched[Len(last.fetched)] # "root.json"

\* the trust state at the re-anchoring point of the last refresh
AnchorTrust ==
  IF Reanchored
  THEN initRoot(RootCheck.doc,
                [keys |-> RootCheck.keys,
                 thr |-> verifyRole(RootCheck.doc, RootCheck.keys, RootCheck.thr).thr,
                 err |-> "ok"])
  ELSE [keys |-> last.pre.keys, thr |-> last.pre.thr, err |-> "ok"]

\* C14: a refresh that aborts at a step other than the re-anchoring leaves
\* the trust state of the re-anchoring point: the one before the refresh when
\* no root was taken in, the one the new root gave otherwise, the new root
\* being in the store.
C14_AbortKeepsAnchorTrust ==
  /\ Ran("refresh") /\ Threw
  /\ last.fetched[Len(last.fetched)] # "root.json"
  => /\ keys_ = AnchorTrust.keys
     /\ thresholds_ = AnchorTrust.thr
     /\ Reanchored => StoredRoot(files) = RootCheck.doc

\* the errors verifyRole throws, all of them SecurityException
SecurityErrors ==
  {"MissingSignatures", "BelowThreshold", "UnsupportedMethod", "UnknownKey",
   "InvalidSignature"}

\* the signature does not count: its method is not supported, its keyid is
\* not trusted, or it does not verify
FailingSignature(sg, doc, keys) ==
  \/ to_lower_copy(sg.method) \notin {"rsassa-pss", "ed25519"}
  \/ sg.keyid \notin DOMAIN keys
  \/ ~VerifySignature(keys[sg.keyid], sg.sig, Canonical(doc.signed))

\* C15: the validation routine rejects with a SecurityException every
\* document one of whose signatures fails, whatever the number of its
\* signatures and of the valid ones among them, and rejects a document
\* without signatures for its missing signatures.
C15_OneBadSignatureRejects ==
  \A ch \in Range(last.checks) :
    /\ ch.doc.signatures = <<>> => ch.err = "MissingSignatures"
    /\ (\E sg \in Range(ch.doc.signatures) : FailingSignature(sg, ch.doc, ch.keys))
         => ch.err \in SecurityErrors

\* two signatures for a threshold of two, the first one valid, the second not
C15_Witness ==
  \E ch \in Range(last.checks) :
    /\ Len(ch.doc.signatures) = 2
    /\ ThresholdOf(ch.thr, to_lower_copy(ch.doc.signed._type)) = 2
    /\ ~FailingSignature(ch.doc.signatures[1], ch.doc, ch.keys)
    /\ FailingSignature(ch.doc.signatures[2], ch.doc, ch.keys)
    /\ ch.err \in SecurityErrors

\* the descriptor refresh builds for target t from the served targets.json
ServedTarget(t) == MakeTarget(t, server["targets.json"].signed.targets[t])

\* the targets the last operation downloaded
Downloaded == TargetNames \cap Range(last.fetched)

\* the last operation ended with err at the download of t, without a file
\* written for t and without d in the target list
Rejected(t, d, err) ==
  /\ last.err = err
  /\ last.fetched[Len(last.fetched)] = t
  /\ t \in DOMAIN targetFiles <=> t \in DOMAIN last.pre.targetFiles
  /\ t \in DOMAIN targetFiles => targetFiles[t] = last.pre.targetFiles[t]
  /\ d \notin Range(targets_)

\* C16: a target of declared length L > 0 whose served content is longer
\* than L ends the refresh with OversizedTarget, one whose content is within
\* L but has another hash ends it with TargetHashMismatch; no file is written
\* for it and it is not appended to the target list.
C16_BadTargetAborts ==
  Ran("refresh") =>
    \A t \in Downloaded :
      /\ Len(blobs[t]) > ServedTarget(t).length_
           => Rejected(t, ServedTarget(t), "OversizedTarget")
      /\ (/\ Len(blobs[t]) <= ServedTarget(t).length_
          /\ ~matchWith(ServedTarget(t).hash_, blobs[t]))
           => Rejected(t, ServedTarget(t), "TargetHashMismatch")

\* a target one byte longer than declared, a file of an earlier refresh
\* being in the store under its name
C16_Witness ==
  /\ Ran("refresh")
  /\ last.err = "OversizedTarget"
  /\ \E t \in Downloaded :
       /\ Len(blobs[t]) = ServedTarget(t).length_ + 1
       /\ t \in DOMAIN last.pre.targetFiles

\* C17: whatever happens to an operation, each file of the store holds
\* afterwards what it held before the operation or the whole of what the
\* server serves for it.
C17_SavesAreAtomic ==
  ~last.dirty =>
    /\ \A p \in DOMAIN files :
         \/ p \in DOMAIN last.pre.files /\ files[p] = last.pre.files[p]
         \/ \E f \in DOMAIN server : p = SavePath(f) /\ files[p] = server[f]
    /\ \A t \in DOMAIN targetFiles :
         \/ t \in DOMAIN last.pre.targetFiles
              /\ targetFiles[t] = last.pre.targetFiles[t]
         \/ targetFiles[t] = blobs[t]

\* the files the last operation wrote or replaced
Written ==
  {p \in DOMAIN files :
     p \notin DOMAIN last.pre.files \/ files[p] # last.pre.files[p]}

\* C18: a document is written to the store only after the validation routine
\* accepted it, and the root in the store is one that initRoot ingests
\* without error.
C18_OnlyValidatedPersisted ==
  /\ Ran("updateRoot") \/ Ran("refresh") =>
       \A p \in Written :
         \E ch \in Range(last.checks) : ch.err = "ok" /\ ch.doc = files[p]
  /\ SavePath("root.json") \in DOMAIN files => ~Failed(TrustOf(StoredRoot(files)))

\* C19: the validation routine leaves the thresholds, the set of roles that
\* have one included, as it found them, whether it accepts or rejects.
C19_VerifyRoleReadsOnly ==
  \A ch \in Range(last.checks) :
    verifyRole(ch.doc, ch.keys, ch.thr).thr = ch.thr

\* C20: after a refresh that took a newer timestamp and aborted in a later
\* step, the next refresh, the server unchanged, fetches snapshot.json again
\* when the timestamp passes the validation.
C20_AbortedUpdateRetried ==
  /\ Ran("refresh")
  /\ last.prev = "aborted"
  /\ last.checks[1].err = "ok"
  => "snapshot.json" \in Range(last.fetched)

====
